---- MODULE Spec2Model ----
(***************************************************************************)
(* A model of the excel-mcp bridge: the download-URL helpers and the tool  *)
(* handlers of py/excel_mcp_server.py and the Java-tool wrappers of        *)
(* py/src/excel/wrapper.py.                                                *)
(*                                                                         *)
(* Text is modelled as a sequence of atoms.  An atom is either one         *)
(* character that some operation of the program looks at ("/", " ", "[",   *)
(* ...) or an opaque run of characters that every operation leaves alone   *)
(* ("https:", "ex.com", "book.xlsx").  A filesystem path is the sequence   *)
(* of its components, each component a text; every path is absolute.       *)
(***************************************************************************)
EXTENDS Integers, Sequences, FiniteSets, TLC

VARIABLES
    env,      \* os.environ: the two variables the server reads
    pc,       \* position of the call in progress: "idle", "called", "done"
    call,     \* the call in progress: entry point, operation, target path
    proc,     \* what _run_java produced for the call in progress
    spawned,  \* number of external processes spawned for the call in progress
    ret,      \* what the call in progress returned or raised
    used,     \* history: what the latest direct call of build_download_url_for_path read
    argv,     \* the command line handed to subprocess.run for the call in progress
    disk,     \* the workbooks the external tool keeps on disk
    inv       \* the tool invocations the transport serves side by side

vars == <<env, pc, call, proc, spawned, ret, used, argv, disk, inv>>

(***************************************************************************)
(* Bounds of the model.                                                    *)
(***************************************************************************)
\* Number of components a target path adds to its base directory.
MaxSuffix == 2
\* Length, in atoms, of the standard output of the external process.
MaxOut == 3
\* Exit codes of the external process range over 0..MaxExit.
MaxExit == 2
\* Tool invocations the transport serves side by side.
NumInv == 2
\* Rows of a matrix written and read back, and cells of a row.
MaxRows == 2
MaxCols == 1

(***************************************************************************)
(* Text helpers.                                                           *)
(***************************************************************************)
RECURSIVE Flatten(_)
\* Concatenation of a sequence of texts.
Flatten(ss) == IF ss = <<>> THEN <<>> ELSE Head(ss) \o Flatten(Tail(ss))

RECURSIVE Join(_, _)
\* sep.join(ss)
Join(ss, sep) ==
    IF ss = <<>> THEN <<>>
    ELSE IF Len(ss) = 1 THEN ss[1]
    ELSE ss[1] \o sep \o Join(Tail(ss), sep)

Front(s) == SubSeq(s, 1, Len(s) - 1)

\* All sequences over S of length at most n.
SeqsUpTo(S, n) == UNION {[1..k -> S] : k \in 0..n}

IsPrefix(s, t) == Len(s) <= Len(t) /\ SubSeq(t, 1, Len(s)) = s

\* Python's "needle in haystack" for str.
Contains(hay, needle) ==
    \E i \in 0..(Len(hay) - Len(needle)) :
        SubSeq(hay, i + 1, i + Len(needle)) = needle

RECURSIVE RStrip(_, _)
\* str.rstrip(chars): drop trailing atoms that are in chars.
RStrip(s, chars) ==
    IF s # <<>> /\ s[Len(s)] \in chars THEN RStrip(Front(s), chars) ELSE s

RECURSIVE LStrip(_, _)
LStrip(s, chars) ==
    IF s # <<>> /\ Head(s) \in chars THEN LStrip(Tail(s), chars) ELSE s

(***************************************************************************)
(* The environment and the filesystem.                                     *)
(***************************************************************************)
Slash == "/"
Dotdot == <<"..">>

\* An environment variable: unset, or set to a value.
EnvUnset == [set |-> FALSE, val |-> <<>>]
EnvSet(v) == [set |-> TRUE, val |-> v]

\* os.environ.get(name, default)
EnvGet(e, name, default) == IF e[name].set THEN e[name].val ELSE default

\* DEFAULT_SHARED_DIR = "/mnt/data"
DEFAULT_SHARED_DIR == << <<"mnt">>, <<"data">> >>
\* DEFAULT_PUBLIC_BASE_URL = ""
DEFAULT_PUBLIC_BASE_URL == <<>>

EtcDir == << <<"etc">> >>
SrvDir == << <<"srv">> >>

\* Symbolic links of the filesystem: /srv -> /mnt/data (a second name of
\* the default shared directory) and /mnt/data/lnk -> /etc (a link that
\* leaves the shared directory).
Symlinks ==
    { [at |-> SrvDir, to |-> DEFAULT_SHARED_DIR],
      [at |-> DEFAULT_SHARED_DIR \o << <<"lnk">> >>, to |-> EtcDir] }

\* Values EXCEL_SHARED_DIR takes when it is set.
SharedDirValues == {SrvDir, EtcDir}

ExCom == <<"https:", Slash, Slash, "ex.com">>
Other == <<"http:", Slash, Slash, "other:8585">>
\* Values EXCEL_PUBLIC_BASE_URL takes when it is set.
BaseUrlValues ==
    { <<>>, <<Slash>>, ExCom, ExCom \o <<Slash, Slash>>, Other }

EnvStates ==
    [ EXCEL_SHARED_DIR : {EnvUnset} \cup {EnvSet(v) : v \in SharedDirValues},
      EXCEL_PUBLIC_BASE_URL : {EnvUnset} \cup {EnvSet(v) : v \in BaseUrlValues} ]

\* Components a target path is built from: "..", a plain file name, the
\* link that leaves the shared directory, and a name with a space and a
\* non-ASCII letter (the atom "U+00E9" is the letter e-acute).
SuffixSegs == { Dotdot, <<"book.xlsx">>, <<"lnk">>, <<"my", " ", "U+00E9">> }

\* Directories a target path starts from.
BaseDirs == { DEFAULT_SHARED_DIR, EtcDir, SrvDir }

PathsUpTo(n) == { b \o s : b \in BaseDirs, s \in SeqsUpTo(SuffixSegs, n) }
Paths == PathsUpTo(MaxSuffix)

RECURSIVE realpath(_, _)
\* Path.resolve() (os.path.realpath): walk the components left to right;
\* ".." drops the last resolved component (the root is its own parent), a
\* component that names a symbolic link is replaced by the link's target.
realpath(acc, rest) ==
    IF rest = <<>> THEN acc
    ELSE LET s == Head(rest) IN
         IF s = Dotdot
         THEN realpath(IF acc = <<>> THEN <<>> ELSE Front(acc), Tail(rest))
         ELSE LET n == Append(acc, s) IN
              IF \E l \in Symlinks : l.at = n
              THEN realpath(<<>>, (CHOOSE l \in Symlinks : l.at = n).to \o Tail(rest))
              ELSE realpath(n, Tail(rest))

resolve(path) == realpath(<<>>, path)

(***************************************************************************)
(* Download URL helpers (excel_mcp_server.py).                             *)
(***************************************************************************)
\* get_shared_directory(): read from the environment at every call.  The
\* os.makedirs(shared_dir, exist_ok=True) call creates plain directories
\* only, which no path resolution depends on.
get_shared_directory(e) == EnvGet(e, "EXCEL_SHARED_DIR", DEFAULT_SHARED_DIR)

\* get_public_base_url() without the .rstrip("/").
get_public_base_url_NoStrip(e) ==
    EnvGet(e, "EXCEL_PUBLIC_BASE_URL", DEFAULT_PUBLIC_BASE_URL)

\* get_public_base_url(): read from the environment at every call.
get_public_base_url(e) ==
    RStrip(EnvGet(e, "EXCEL_PUBLIC_BASE_URL", DEFAULT_PUBLIC_BASE_URL), {Slash})

\* PurePath.relative_to(other) succeeds when other is a leading part of the
\* path, the path itself included.
relative_to_ok(p, other) == IsPrefix(other, p)
relative_to(p, other) == SubSeq(p, Len(other) + 1, Len(p))

\* PurePath.as_posix(): the components joined by "/"; the empty relative
\* path is ".".
as_posix(rel) == IF rel = <<>> THEN <<".">> ELSE Join(rel, <<Slash>>)

\* urllib.parse.quote on one atom: the atoms in safe and the unreserved
\* characters are kept, "/" becomes %2F, a space becomes %20, e-acute
\* becomes its two UTF-8 bytes.
QuoteAtom(c, safe) ==
    CASE c \in safe -> <<c>>
      [] c = Slash -> <<"%2F">>
      [] c = " " -> <<"%20">>
      [] c = "U+00E9" -> <<"%C3", "%A9">>
      [] OTHER -> <<c>>

RECURSIVE quote_with(_, _)
quote_with(s, safe) ==
    IF s = <<>> THEN <<>> ELSE QuoteAtom(Head(s), safe) \o quote_with(Tail(s), safe)

\* urllib.parse.quote(string, safe="").
quote_NoSafe(s) == quote_with(s, {})

\* urllib.parse.quote(string), whose default is safe="/".
quote(s) == quote_with(s, {Slash})

\* str(path) of an absolute path.
PathStr(p) == <<Slash>> \o Join(p, <<Slash>>)

\* A call ends by returning a value or by raising an exception, of a class
\* and with a message.
Returned(v) == [kind |-> "return", value |-> v]
Raised(exc, msg) == [kind |-> "raise", exc |-> exc, msg |-> msg]

NotConfiguredMsg == <<"EXCEL_PUBLIC_BASE_URL is not configured. Set it to the public base URL for this MCP server">>
NotConfigured == Raised("RuntimeError", NotConfiguredMsg)
NotUnder(shared_dir, p) ==
    Raised("ValueError",
           <<"File path must be under the shared directory to be downloadable. ",
             "EXCEL_SHARED_DIR=">> \o PathStr(shared_dir)
           \o <<" but got path=">> \o PathStr(p))

\* build_download_url_for_path comparing the paths as given, unresolved.
build_download_url_for_path_Unresolved(e, file_path) ==
    LET base_url == get_public_base_url(e) IN
    IF base_url = <<>> THEN NotConfigured
    ELSE LET shared_dir == get_shared_directory(e)
             p == file_path
         IN IF ~relative_to_ok(p, shared_dir) THEN NotUnder(shared_dir, p)
            ELSE LET rel_posix == as_posix(relative_to(p, shared_dir))
                     rel_quoted == quote(rel_posix)
                 IN Returned(base_url \o <<Slash, "files", Slash>> \o rel_quoted)

\* build_download_url_for_path(file_path), in environment e.
build_download_url_for_path(e, file_path) ==
    LET base_url == get_public_base_url(e) IN
    IF base_url = <<>> THEN NotConfigured
    ELSE LET shared_dir == resolve(get_shared_directory(e))
             p == resolve(file_path)
         IN IF ~relative_to_ok(p, shared_dir) THEN NotUnder(shared_dir, p)
            ELSE LET rel_posix == as_posix(relative_to(p, shared_dir))
                     rel_quoted == quote(rel_posix)
                 IN Returned(base_url \o <<Slash, "files", Slash>> \o rel_quoted)

\* History: what a download-URL build reads from the environment.  The
\* shared directory is read only when the origin is configured.
NoConfig == [read |-> FALSE]
ConfigRead(e) ==
    LET base_url == get_public_base_url(e) IN
    [read |-> TRUE, origin |-> base_url, rootRead |-> base_url # <<>>,
     root |-> IF base_url # <<>> THEN resolve(get_shared_directory(e)) ELSE <<>>]

(***************************************************************************)
(* The external process and the wrappers (src/excel/wrapper.py).           *)
(***************************************************************************)
\* Atoms of the standard output of the external process.
OutAtoms == {" ", "[", "]", "1", "O", "K"}
Whitespace == {" "}
Digits == {"1", "5"}

Stdouts == SeqsUpTo(OutAtoms, MaxOut)
Stderrs == { <<>>, <<"boom">> }

\* What can happen when subprocess.run is asked to run the java command:
\* the process runs to completion, or it cannot be started (no java
\* executable on the PATH) and subprocess.run raises.
ProcEvents(outs) ==
    [kind : {"completed"}, returncode : 0..MaxExit, stdout : outs, stderr : Stderrs]
    \cup {[kind |-> "oserror"]}

\* _run_java(class_name, args): subprocess.run(cmd, check=False,
\* capture_output=True, text=True) returns the completed process whatever
\* its exit code is; an OSError of the launch is not caught.
_run_java(class_name, ev) ==
    IF ev.kind = "completed"
    THEN Returned([class_name |-> class_name, returncode |-> ev.returncode,
                   stdout |-> ev.stdout, stderr |-> ev.stderr])
    ELSE Raised("FileNotFoundError", <<"[Errno 2] No such file or directory: 'java'">>)

\* Number of processes a call of _run_java has spawned.
Spawns(r) == IF r.kind = "return" THEN 1 ELSE 0

\* str.strip()
strip(s) == LStrip(RStrip(s, Whitespace), Whitespace)

\* ---- json.loads: null, numbers, strings and arrays ----
\* The atoms JSON gives a meaning to inside a string, and the atom null.
Quote == "\""
Backslash == "\\"
NullAtom == "null"

RECURSIVE SkipWs(_, _)
SkipWs(s, i) == IF i <= Len(s) /\ s[i] \in Whitespace THEN SkipWs(s, i + 1) ELSE i

RECURSIVE SkipDigits(_, _)
SkipDigits(s, i) == IF i <= Len(s) /\ s[i] \in Digits THEN SkipDigits(s, i + 1) ELSE i

JsonFail == [ok |-> FALSE]
JsonOk(v, next) == [ok |-> TRUE, val |-> v, next |-> next]
JsonNull == [t |-> "null"]
JsonNum(ds) == [t |-> "num", digits |-> ds]
JsonStr(s) == [t |-> "str", s |-> s]
JsonList(items) == [t |-> "list", items |-> items]

RECURSIVE ParseString(_, _, _)
\* The rest of a string whose opening quote has been read: it ends at the
\* next quote; a backslash takes the quote or backslash after it as a
\* character of the string.
ParseString(s, i, acc) ==
    IF i > Len(s) THEN JsonFail
    ELSE IF s[i] = Quote THEN JsonOk(JsonStr(acc), i + 1)
    ELSE IF s[i] = Backslash
    THEN IF i + 1 <= Len(s) /\ s[i + 1] \in {Quote, Backslash}
         THEN ParseString(s, i + 2, Append(acc, s[i + 1]))
         ELSE JsonFail
    ELSE ParseString(s, i + 1, Append(acc, s[i]))

RECURSIVE ParseValue(_, _)
RECURSIVE ParseItems(_, _, _)
\* One JSON value starting at position i.
ParseValue(s, i) ==
    IF i > Len(s) THEN JsonFail
    ELSE IF s[i] \in Digits
    THEN LET j == SkipDigits(s, i) IN JsonOk(JsonNum(SubSeq(s, i, j - 1)), j)
    ELSE IF s[i] = NullAtom THEN JsonOk(JsonNull, i + 1)
    ELSE IF s[i] = Quote THEN ParseString(s, i + 1, <<>>)
    ELSE IF s[i] = "["
    THEN LET k == SkipWs(s, i + 1) IN
         IF k <= Len(s) /\ s[k] = "]" THEN JsonOk(JsonList(<<>>), k + 1)
         ELSE ParseItems(s, k, <<>>)
    ELSE JsonFail

\* The items of an array whose "[" has been read, the next item at i.
ParseItems(s, i, acc) ==
    LET v == ParseValue(s, i) IN
    IF ~v.ok THEN JsonFail
    ELSE LET k == SkipWs(s, v.next) IN
         IF k > Len(s) THEN JsonFail
         ELSE IF s[k] = "]" THEN JsonOk(JsonList(Append(acc, v.val)), k + 1)
         ELSE IF s[k] = "," THEN ParseItems(s, SkipWs(s, k + 1), Append(acc, v.val))
         ELSE JsonFail

\* json.loads(s): one value with optional whitespace around it, or
\* json.JSONDecodeError.
json_loads(s) ==
    LET v == ParseValue(s, SkipWs(s, 1)) IN
    IF v.ok /\ SkipWs(s, v.next) > Len(s) THEN Returned(v.val)
    ELSE Raised("JSONDecodeError", <<"Expecting value">>)

\* ---- json.dumps(value, ensure_ascii=False) ----
RECURSIVE EscapeStr(_)
\* The characters of a string as JSON writes them: a quote and a backslash
\* get a backslash in front, every other character (the non-ASCII ones
\* too, with ensure_ascii=False) is written as it is.
EscapeStr(s) ==
    IF s = <<>> THEN <<>>
    ELSE (IF Head(s) \in {Quote, Backslash} THEN <<Backslash, Head(s)>> ELSE <<Head(s)>>)
         \o EscapeStr(Tail(s))

RECURSIVE json_dumps_Repr(_)
\* str(value): the text Python prints for the value, None for null and
\* single quotes around a string.
json_dumps_Repr(v) ==
    CASE v.t = "null" -> <<"None">>
      [] v.t = "num" -> v.digits
      [] v.t = "str" -> <<"'">> \o v.s \o <<"'">>
      [] v.t = "list" ->
            <<"[">> \o Join([i \in 1..Len(v.items) |-> json_dumps_Repr(v.items[i])],
                            <<",", " ">>) \o <<"]">>

RECURSIVE json_dumps(_)
\* json.dumps with its default separators: ", " between the items.
json_dumps(v) ==
    CASE v.t = "null" -> <<NullAtom>>
      [] v.t = "num" -> v.digits
      [] v.t = "str" -> <<Quote>> \o EscapeStr(v.s) \o <<Quote>>
      [] v.t = "list" ->
            <<"[">> \o Join([i \in 1..Len(v.items) |-> json_dumps(v.items[i])],
                            <<",", " ">>) \o <<"]">>

\* The check of the wrappers with result.stdout in the place of
\* result.stderr.
FailureOf_Stdout(result) ==
    Raised("RuntimeError",
           IF result.stdout # <<>> THEN result.stdout
           ELSE <<result.class_name, " failed: ", ToString(result.returncode)>>)

\* The check every wrapper makes on the completed process:
\*   if result.returncode != 0:
\*       raise RuntimeError(result.stderr or f"<Tool> failed: {result.returncode}")
FailureOf(result) ==
    Raised("RuntimeError",
           IF result.stderr # <<>> THEN result.stderr
           ELSE <<result.class_name, " failed: ", ToString(result.returncode)>>)

PyNone == [t |-> "None"]
PyBool(b) == [t |-> "bool", b |-> b]
PyStr(s) == [t |-> "str", s |-> s]

\* A wrapper that returns None and does not look at the exit code.
ReturnsNone_Unchecked(r) == IF r.kind = "raise" THEN r ELSE Returned(PyNone)

\* A wrapper that returns None: run the tool, raise on a non-zero exit.
ReturnsNone(r) ==
    IF r.kind = "raise" THEN r
    ELSE IF r.value.returncode # 0 THEN FailureOf(r.value)
    ELSE Returned(PyNone)

\* A wrapper that returns result.stdout.strip() == "OK".
ReturnsOkInStdout_Equals(r) ==
    IF r.kind = "raise" THEN r
    ELSE IF r.value.returncode # 0 THEN FailureOf(r.value)
    ELSE Returned(PyBool(strip(r.value.stdout) = <<"O", "K">>))

\* A wrapper that returns "OK" in result.stdout.
ReturnsOkInStdout(r) ==
    IF r.kind = "raise" THEN r
    ELSE IF r.value.returncode # 0 THEN FailureOf(r.value)
    ELSE Returned(PyBool(Contains(r.value.stdout, <<"O", "K">>)))

create_excel(ev) == ReturnsNone(_run_java("CreateExcelTool", ev))

\* read_excel with the decoding in a try block whose handler returns [].
read_excel_Swallow(ev) ==
    LET r == _run_java("ReadExcelTool", ev) IN
    IF r.kind = "raise" THEN r
    ELSE IF r.value.returncode # 0 THEN FailureOf(r.value)
    ELSE LET t == strip(r.value.stdout)
             v == json_loads(IF t # <<>> THEN t ELSE <<"[", "]">>)
         IN IF v.kind = "raise" THEN Returned(JsonList(<<>>)) ELSE v

\* read_excel with json.loads(result.stdout.strip()).
read_excel_NoDefault(ev) ==
    LET r == _run_java("ReadExcelTool", ev) IN
    IF r.kind = "raise" THEN r
    ELSE IF r.value.returncode # 0 THEN FailureOf(r.value)
    ELSE json_loads(strip(r.value.stdout))

\* read_excel: json.loads(result.stdout.strip() or "[]")
read_excel(ev) ==
    LET r == _run_java("ReadExcelTool", ev) IN
    IF r.kind = "raise" THEN r
    ELSE IF r.value.returncode # 0 THEN FailureOf(r.value)
    ELSE LET t == strip(r.value.stdout) IN
         json_loads(IF t # <<>> THEN t ELSE <<"[", "]">>)

write_excel(ev) == ReturnsNone(_run_java("WriteExcelTool", ev))
create_sheet(ev) == ReturnsNone(_run_java("CreateSheetTool", ev))
rename_worksheet(ev) == ReturnsNone(_run_java("RenameWorksheetTool", ev))
delete_worksheet(ev) == ReturnsNone(_run_java("DeleteWorksheetTool", ev))
copy_worksheet(ev) == ReturnsNone(_run_java("CopyWorksheetTool", ev))
apply_formula(ev) == ReturnsNone(_run_java("ApplyFormulaTool", ev))
validate_formula_syntax(ev) ==
    ReturnsOkInStdout(_run_java("ValidateFormulaSyntaxTool", ev))
format_range(ev) == ReturnsNone(_run_java("FormatRangeTool", ev))
merge_cells(ev) == ReturnsNone(_run_java("MergeCellsTool", ev))
unmerge_cells(ev) == ReturnsNone(_run_java("UnmergeCellsTool", ev))
copy_range(ev) == ReturnsNone(_run_java("CopyRangeTool", ev))
delete_range(ev) == ReturnsNone(_run_java("DeleteRangeTool", ev))
validate_excel_range(ev) ==
    ReturnsOkInStdout(_run_java("ValidateExcelRangeTool", ev))
create_chart(ev) == ReturnsNone(_run_java("CreateChartTool", ev))

\* create_pivot_table: return result.stdout.strip()
create_pivot_table(ev) ==
    LET r == _run_java("CreatePivotTableTool", ev) IN
    IF r.kind = "raise" THEN r
    ELSE IF r.value.returncode # 0 THEN FailureOf(r.value)
    ELSE Returned(PyStr(strip(r.value.stdout)))

\* write_range and append_rows are imported by the server from
\* excel/wrapper.py, which does not define them; they are modelled on the
\* wrappers that are there: write_range like write_excel, append_rows
\* returning the row index the tool prints.
write_range(ev) == ReturnsNone(_run_java("WriteRangeTool", ev))
append_rows(ev) ==
    LET r == _run_java("AppendRowsTool", ev) IN
    IF r.kind = "raise" THEN r
    ELSE IF r.value.returncode # 0 THEN FailureOf(r.value)
    ELSE LET t == strip(r.value.stdout) IN
         IF t # <<>> /\ SkipDigits(t, 1) > Len(t) THEN Returned(JsonNum(t))
         ELSE Raised("ValueError", <<"invalid literal for int()">>)

\* The Java class each wrapper of wrapper.py runs.
JavaClass ==
    [ create_excel |-> "CreateExcelTool", read_excel |-> "ReadExcelTool",
      write_excel |-> "WriteExcelTool", create_sheet |-> "CreateSheetTool",
      rename_worksheet |-> "RenameWorksheetTool",
      delete_worksheet |-> "DeleteWorksheetTool",
      copy_worksheet |-> "CopyWorksheetTool", apply_formula |-> "ApplyFormulaTool",
      validate_formula_syntax |-> "ValidateFormulaSyntaxTool",
      format_range |-> "FormatRangeTool", merge_cells |-> "MergeCellsTool",
      unmerge_cells |-> "UnmergeCellsTool", copy_range |-> "CopyRangeTool",
      delete_range |-> "DeleteRangeTool",
      validate_excel_range |-> "ValidateExcelRangeTool",
      create_chart |-> "CreateChartTool",
      create_pivot_table |-> "CreatePivotTableTool" ]

\* The wrappers wrapper.py defines.
WrapperOps == DOMAIN JavaClass

\* Call of a wrapper by its name.
Wrapper(op, ev) ==
    CASE op = "create_excel" -> create_excel(ev)
      [] op = "read_excel" -> read_excel(ev)
      [] op = "write_excel" -> write_excel(ev)
      [] op = "write_range" -> write_range(ev)
      [] op = "append_rows" -> append_rows(ev)
      [] op = "create_sheet" -> create_sheet(ev)
      [] op = "rename_worksheet" -> rename_worksheet(ev)
      [] op = "delete_worksheet" -> delete_worksheet(ev)
      [] op = "copy_worksheet" -> copy_worksheet(ev)
      [] op = "apply_formula" -> apply_formula(ev)
      [] op = "validate_formula_syntax" -> validate_formula_syntax(ev)
      [] op = "format_range" -> format_range(ev)
      [] op = "merge_cells" -> merge_cells(ev)
      [] op = "unmerge_cells" -> unmerge_cells(ev)
      [] op = "copy_range" -> copy_range(ev)
      [] op = "delete_range" -> delete_range(ev)
      [] op = "validate_excel_range" -> validate_excel_range(ev)
      [] op = "create_chart" -> create_chart(ev)
      [] op = "create_pivot_table" -> create_pivot_table(ev)

\* The Java class a wrapper runs, the two wrappers that are not in
\* wrapper.py included.
ClassOf(op) ==
    IF op \in WrapperOps THEN JavaClass[op]
    ELSE IF op = "write_range" THEN "WriteRangeTool" ELSE "AppendRowsTool"

\* The outcome of the _run_java call a wrapper makes.
WrapperProc(op, ev) == _run_java(ClassOf(op), ev)

(***************************************************************************)
(* The argument vector each wrapper builds (src/excel/wrapper.py).  Every  *)
(* entry is a text; file_path is the text of the path.  An optional        *)
(* parameter is PyNone or a PyStr, a list of names a sequence of texts.    *)
(***************************************************************************)
PyList(items) == [t |-> "list", items |-> items]

\* str(b).lower() of a bool, str(n) of an int.
BoolLower(b) == IF b THEN <<"true">> ELSE <<"false">>
IntStr(n) == <<ToString(n)>>

\* cmd = ["java", "-cp", _java_classpath(), class_name, *list(args)]
Cmd(class_name, args) ==
    << <<"java">>, <<"-cp">>, <<"java/jars/*:java/dist">>, <<class_name>> >> \o args

create_excel_args(file_path, sheet_name) == <<file_path, sheet_name>>

read_excel_args(file_path, sheet_name, range_str) ==
    <<file_path, sheet_name, range_str>>

\* write_excel with str(data) in the place of json.dumps(data, ...).
write_excel_args_Repr(file_path, sheet_name, data) ==
    <<file_path, sheet_name, json_dumps_Repr(data)>>

\* json_data = json.dumps(data, ensure_ascii=False)
write_excel_args(file_path, sheet_name, data) ==
    <<file_path, sheet_name, json_dumps(data)>>

create_sheet_args(file_path, sheet_name) == <<file_path, sheet_name>>

rename_worksheet_args(file_path, old_name, new_name) ==
    <<file_path, old_name, new_name>>

delete_worksheet_args(file_path, sheet_name) == <<file_path, sheet_name>>

copy_worksheet_args(file_path, source_sheet, target_sheet) ==
    <<file_path, source_sheet, target_sheet>>

apply_formula_args(file_path, sheet_name, cell, formula) ==
    <<file_path, sheet_name, cell, formula>>

validate_formula_syntax_args(file_path, sheet_name, formula) ==
    <<file_path, sheet_name, formula>>

format_range_args(file_path, sheet_name, start_cell, end_cell, bold, italic, font_size, font_color, bg_color) ==
    <<file_path, sheet_name, start_cell, end_cell, BoolLower(bold),
      BoolLower(italic), IntStr(font_size), font_color, bg_color>>

merge_cells_args(file_path, sheet_name, start_cell, end_cell) ==
    <<file_path, sheet_name, start_cell, end_cell>>

unmerge_cells_args(file_path, sheet_name, start_cell, end_cell) ==
    <<file_path, sheet_name, start_cell, end_cell>>

\* copy_range passing target_sheet or "".
copy_range_args_Placeholder(file_path, sheet_name, source_start, source_end, target_start, target_sheet) ==
    <<file_path, sheet_name, source_start, source_end, target_start,
      IF target_sheet # PyNone THEN target_sheet.s ELSE <<>> >>

\* args = [...]; if target_sheet is not None: args.append(target_sheet)
copy_range_args(file_path, sheet_name, source_start, source_end, target_start, target_sheet) ==
    LET args == <<file_path, sheet_name, source_start, source_end, target_start>>
    IN IF target_sheet # PyNone THEN Append(args, target_sheet.s) ELSE args

delete_range_args(file_path, sheet_name, start_cell, end_cell, shift_direction) ==
    <<file_path, sheet_name, start_cell, end_cell, shift_direction>>

validate_excel_range_args(file_path, sheet_name, start_cell, end_cell) ==
    LET args == <<file_path, sheet_name, start_cell>>
    IN IF end_cell # PyNone THEN Append(args, end_cell.s) ELSE args

\* Three appends, each under its own "is not None".
create_chart_args(file_path, sheet_name, data_range, chart_type, target_cell, title, x_axis, y_axis) ==
    LET args0 == <<file_path, sheet_name, data_range, chart_type, target_cell>>
        args1 == IF title # PyNone THEN Append(args0, title.s) ELSE args0
        args2 == IF x_axis # PyNone THEN Append(args1, x_axis.s) ELSE args1
    IN IF y_axis # PyNone THEN Append(args2, y_axis.s) ELSE args2

\* rows_str = ",".join(rows); values_str = ",".join(values);
\* columns_str = ",".join(columns) if columns is not None else ""
create_pivot_table_args(file_path, sheet_name, data_range, rows, values, columns, agg_func) ==
    LET rows_str == Join(rows, <<",">>)
        values_str == Join(values, <<",">>)
        columns_str == IF columns # PyNone THEN Join(columns.items, <<",">>) ELSE <<>>
    IN <<file_path, sheet_name, data_range, rows_str, values_str, columns_str, agg_func>>

\* write_range and append_rows are not in wrapper.py (see above): their
\* parameters in the declared order, the matrix as write_excel passes it.
write_range_args(file_path, sheet_name, start_cell, data) ==
    <<file_path, sheet_name, start_cell, json_dumps(data)>>
append_rows_args(file_path, sheet_name, rows, anchor_column) ==
    <<file_path, sheet_name, json_dumps(rows), anchor_column>>

(***************************************************************************)
(* Execution of a call: the outcome of its _run_java call (if one was      *)
(* made), the number of processes it spawned, and what it returned or      *)
(* raised.                                                                 *)
(***************************************************************************)
NoProc == [kind |-> "none"]
Execution(p, n, r) == [proc |-> p, spawned |-> n, ret |-> r]

\* A wrapper that runs the tool a second time when the first run fails.
WrapperExec_Retry(op, ev) ==
    LET p == WrapperProc(op, ev)
        r == Wrapper(op, ev)
    IN Execution(p, IF r.kind = "raise" THEN 2 * Spawns(p) ELSE Spawns(p), r)

\* A wrapper called by its name: it calls _run_java once.
WrapperExec(op, ev) ==
    LET p == WrapperProc(op, ev) IN Execution(p, Spawns(p), Wrapper(op, ev))

(***************************************************************************)
(* Tool handlers (excel_mcp_server.py).  Of the arguments of a tool only   *)
(* the path is modelled; the texts of the messages leave the others out.   *)
(***************************************************************************)
\* The body of the handlers with the URL built before the wrapper runs.
AttachUrl_UrlFirst(x, e, path, fields) ==
    LET u == build_download_url_for_path(e, path) IN
    IF u.kind = "raise" THEN Execution(NoProc, 0, u)
    ELSE IF x.ret.kind = "raise" THEN x
    ELSE [x EXCEPT !.ret =
             Returned([fields |-> fields, path |-> path, download_url |-> u.value])]

\* The body shared by the handlers of the mutating tools:
\*     wrapper(path, ...)
\*     return {"message": ..., "path": path, ...,
\*             "download_url": build_download_url_for_path(path)}
\* x is the execution of the wrapper; an exception of the wrapper or of
\* the URL builder leaves the handler.
AttachUrl(x, e, path, fields) ==
    IF x.ret.kind = "raise" THEN x
    ELSE LET u == build_download_url_for_path(e, path) IN
         IF u.kind = "raise" THEN [x EXCEPT !.ret = u]
         ELSE [x EXCEPT !.ret =
                  Returned([fields |-> fields, path |-> path, download_url |-> u.value])]

Msg(text, path) == [message |-> <<text>> \o PathStr(path)]

tool_create_excel(e, path, ev) ==
    AttachUrl(WrapperExec("create_excel", ev), e, path,
              Msg("Created Excel workbook at ", path))

\* A handler of read_excel that attaches a download URL as the handlers of
\* the mutating tools do.
tool_read_excel_WithUrl(e, path, ev) ==
    LET x == WrapperExec("read_excel", ev) IN
    AttachUrl(x, e, path, IF x.ret.kind = "raise" THEN <<>> ELSE [data |-> x.ret.value])

tool_read_excel(e, path, ev) ==
    LET x == WrapperExec("read_excel", ev) IN
    IF x.ret.kind = "raise" THEN x
    ELSE [x EXCEPT !.ret = Returned([path |-> path, data |-> x.ret.value])]

tool_write_excel(e, path, ev) ==
    AttachUrl(WrapperExec("write_excel", ev), e, path, Msg("Wrote rows to ", path))

tool_write_range(e, path, ev) ==
    AttachUrl(WrapperExec("write_range", ev), e, path, Msg("Wrote rows to ", path))

RECURSIVE IntOf(_)
\* The number a text of digits denotes.
IntOf(ds) ==
    IF ds = <<>> THEN 0
    ELSE 10 * IntOf(Front(ds)) + (IF ds[Len(ds)] = "5" THEN 5 ELSE 1)

\* tool_append_rows with the row of the message, start_row + 1, in the
\* response.
tool_append_rows_OneBased(e, path, ev) ==
    LET x == WrapperExec("append_rows", ev) IN
    IF x.ret.kind = "raise" THEN x
    ELSE LET start_row == IntOf(x.ret.value.digits) IN
         AttachUrl(x, e, path,
                   [message |-> <<"Appended rows to ">> \o PathStr(path)
                                \o <<" at row ", ToString(start_row + 1)>>,
                    start_row |-> start_row + 1])

\* tool_append_rows: the message names row start_row + 1, the response
\* carries start_row.
tool_append_rows(e, path, ev) ==
    LET x == WrapperExec("append_rows", ev) IN
    IF x.ret.kind = "raise" THEN x
    ELSE LET start_row == IntOf(x.ret.value.digits) IN
         AttachUrl(x, e, path,
                   [message |-> <<"Appended rows to ">> \o PathStr(path)
                                \o <<" at row ", ToString(start_row + 1)>>,
                    start_row |-> start_row])

tool_create_sheet(e, path, ev) ==
    AttachUrl(WrapperExec("create_sheet", ev), e, path, Msg("Created sheet in ", path))

tool_rename_worksheet(e, path, ev) ==
    AttachUrl(WrapperExec("rename_worksheet", ev), e, path, Msg("Renamed sheet in ", path))

tool_delete_worksheet(e, path, ev) ==
    AttachUrl(WrapperExec("delete_worksheet", ev), e, path, Msg("Deleted sheet in ", path))

tool_copy_worksheet(e, path, ev) ==
    AttachUrl(WrapperExec("copy_worksheet", ev), e, path, Msg("Copied sheet in ", path))

tool_apply_formula(e, path, ev) ==
    AttachUrl(WrapperExec("apply_formula", ev), e, path, Msg("Applied formula to ", path))

tool_validate_formula_syntax(e, path, ev) ==
    LET x == WrapperExec("validate_formula_syntax", ev) IN
    IF x.ret.kind = "raise" THEN x
    ELSE [x EXCEPT !.ret = Returned([valid |-> x.ret.value.b])]

tool_format_range(e, path, ev) ==
    AttachUrl(WrapperExec("format_range", ev), e, path, Msg("Formatted range in ", path))

tool_merge_cells(e, path, ev) ==
    AttachUrl(WrapperExec("merge_cells", ev), e, path, Msg("Merged cells in ", path))

tool_unmerge_cells(e, path, ev) ==
    AttachUrl(WrapperExec("unmerge_cells", ev), e, path, Msg("Unmerged cells in ", path))

tool_copy_range(e, path, ev) ==
    AttachUrl(WrapperExec("copy_range", ev), e, path, Msg("Copied range in ", path))

tool_delete_range(e, path, ev) ==
    AttachUrl(WrapperExec("delete_range", ev), e, path, Msg("Deleted range in ", path))

tool_validate_excel_range(e, path, ev) ==
    LET x == WrapperExec("validate_excel_range", ev) IN
    IF x.ret.kind = "raise" THEN x
    ELSE [x EXCEPT !.ret = Returned([valid |-> x.ret.value.b])]

tool_create_chart(e, path, ev) ==
    AttachUrl(WrapperExec("create_chart", ev), e, path, Msg("Created chart in ", path))

tool_create_pivot_table(e, path, ev) ==
    LET x == WrapperExec("create_pivot_table", ev) IN
    IF x.ret.kind = "raise" THEN x
    ELSE [x EXCEPT !.ret = Returned([message |-> x.ret.value.s])]

\* The tools whose handler attaches a download URL.
MutatingTools ==
    { "tool_create_excel", "tool_write_excel", "tool_write_range",
      "tool_append_rows", "tool_create_sheet", "tool_rename_worksheet",
      "tool_delete_worksheet", "tool_copy_worksheet", "tool_apply_formula",
      "tool_format_range", "tool_merge_cells", "tool_unmerge_cells",
      "tool_copy_range", "tool_delete_range", "tool_create_chart" }

ReadOnlyTools ==
    { "tool_read_excel", "tool_validate_formula_syntax",
      "tool_validate_excel_range", "tool_create_pivot_table" }

Tools == MutatingTools \cup ReadOnlyTools

\* Call of a tool by its registered name.
Tool(tool, e, path, ev) ==
    CASE tool = "tool_create_excel" -> tool_create_excel(e, path, ev)
      [] tool = "tool_read_excel" -> tool_read_excel(e, path, ev)
      [] tool = "tool_write_excel" -> tool_write_excel(e, path, ev)
      [] tool = "tool_write_range" -> tool_write_range(e, path, ev)
      [] tool = "tool_append_rows" -> tool_append_rows(e, path, ev)
      [] tool = "tool_create_sheet" -> tool_create_sheet(e, path, ev)
      [] tool = "tool_rename_worksheet" -> tool_rename_worksheet(e, path, ev)
      [] tool = "tool_delete_worksheet" -> tool_delete_worksheet(e, path, ev)
      [] tool = "tool_copy_worksheet" -> tool_copy_worksheet(e, path, ev)
      [] tool = "tool_apply_formula" -> tool_apply_formula(e, path, ev)
      [] tool = "tool_validate_formula_syntax" -> tool_validate_formula_syntax(e, path, ev)
      [] tool = "tool_format_range" -> tool_format_range(e, path, ev)
      [] tool = "tool_merge_cells" -> tool_merge_cells(e, path, ev)
      [] tool = "tool_unmerge_cells" -> tool_unmerge_cells(e, path, ev)
      [] tool = "tool_copy_range" -> tool_copy_range(e, path, ev)
      [] tool = "tool_delete_range" -> tool_delete_range(e, path, ev)
      [] tool = "tool_validate_excel_range" -> tool_validate_excel_range(e, path, ev)
      [] tool = "tool_create_chart" -> tool_create_chart(e, path, ev)
      [] tool = "tool_create_pivot_table" -> tool_create_pivot_table(e, path, ev)

\* The wrapper each handler calls.
WrapperOf ==
    [ tool_create_excel |-> "create_excel", tool_read_excel |-> "read_excel",
      tool_write_excel |-> "write_excel", tool_write_range |-> "write_range",
      tool_append_rows |-> "append_rows", tool_create_sheet |-> "create_sheet",
      tool_rename_worksheet |-> "rename_worksheet",
      tool_delete_worksheet |-> "delete_worksheet",
      tool_copy_worksheet |-> "copy_worksheet",
      tool_apply_formula |-> "apply_formula",
      tool_validate_formula_syntax |-> "validate_formula_syntax",
      tool_format_range |-> "format_range", tool_merge_cells |-> "merge_cells",
      tool_unmerge_cells |-> "unmerge_cells", tool_copy_range |-> "copy_range",
      tool_delete_range |-> "delete_range",
      tool_validate_excel_range |-> "validate_excel_range",
      tool_create_chart |-> "create_chart",
      tool_create_pivot_table |-> "create_pivot_table" ]

\* The argument vector of a request: every handler hands its parameters
\* to its wrapper as they came, in the order of the wrapper's parameters.
ToolArgs(tool, a) ==
    LET path == PathStr(a.path) IN
    CASE tool = "tool_create_excel" -> create_excel_args(path, a.sheet_name)
      [] tool = "tool_read_excel" -> read_excel_args(path, a.sheet_name, a.range_str)
      [] tool = "tool_write_excel" -> write_excel_args(path, a.sheet_name, a.data)
      [] tool = "tool_write_range" ->
            write_range_args(path, a.sheet_name, a.start_cell, a.data)
      [] tool = "tool_append_rows" ->
            append_rows_args(path, a.sheet_name, a.rows, a.anchor_column)
      [] tool = "tool_create_sheet" -> create_sheet_args(path, a.sheet_name)
      [] tool = "tool_rename_worksheet" ->
            rename_worksheet_args(path, a.old_name, a.new_name)
      [] tool = "tool_delete_worksheet" -> delete_worksheet_args(path, a.sheet_name)
      [] tool = "tool_copy_worksheet" ->
            copy_worksheet_args(path, a.source_sheet, a.target_sheet)
      [] tool = "tool_apply_formula" ->
            apply_formula_args(path, a.sheet_name, a.cell, a.formula)
      [] tool = "tool_validate_formula_syntax" ->
            validate_formula_syntax_args(path, a.sheet_name, a.formula)
      [] tool = "tool_format_range" ->
            format_range_args(path, a.sheet_name, a.start_cell, a.end_cell, a.bold,
                              a.italic, a.font_size, a.font_color, a.bg_color)
      [] tool = "tool_merge_cells" ->
            merge_cells_args(path, a.sheet_name, a.start_cell, a.end_cell)
      [] tool = "tool_unmerge_cells" ->
            unmerge_cells_args(path, a.sheet_name, a.start_cell, a.end_cell)
      [] tool = "tool_copy_range" ->
            copy_range_args(path, a.sheet_name, a.source_start, a.source_end,
                            a.target_start, a.target_sheet)
      [] tool = "tool_delete_range" ->
            delete_range_args(path, a.sheet_name, a.start_cell, a.end_cell,
                              a.shift_direction)
      [] tool = "tool_validate_excel_range" ->
            validate_excel_range_args(path, a.sheet_name, a.start_cell, a.end_cell)
      [] tool = "tool_create_chart" ->
            create_chart_args(path, a.sheet_name, a.data_range, a.chart_type,
                              a.target_cell, a.title, a.x_axis, a.y_axis)
      [] tool = "tool_create_pivot_table" ->
            create_pivot_table_args(path, a.sheet_name, a.data_range, a.rows,
                                    a.values, a.columns, a.agg_func)

\* The command line of a request.
ToolCmd(tool, a) == Cmd(ClassOf(WrapperOf[tool]), ToolArgs(tool, a))

\* Inputs of the tool calls: target paths one component below a base
\* directory, and the outputs "", "OK" and "1" of the external process.
ToolPaths == PathsUpTo(1)
ToolStdouts == { <<>>, <<"O", "K">>, <<"1">> }

(***************************************************************************)
(* State machine.                                                          *)
(***************************************************************************)
NoCall == [layer |-> "none"]
NoRet == [kind |-> "none"]
DefaultEnv == [EXCEL_SHARED_DIR |-> EnvUnset, EXCEL_PUBLIC_BASE_URL |-> EnvUnset]
\* No command line built, no workbook on disk, no invocation being served.
NoArgv == <<>>
NoDisk == [files |-> {}, cells |-> {}]
NoInv == <<>>

Init ==
    /\ env \in EnvStates
    /\ pc = "idle"
    /\ call = NoCall
    /\ proc = NoProc
    /\ spawned = 0
    /\ ret = NoRet
    /\ used = NoConfig
    /\ argv = NoArgv
    /\ disk = NoDisk
    /\ inv = NoInv

\* The environment of the process changes between two calls.
SetEnv ==
    /\ pc = "idle"
    /\ \E n \in {"EXCEL_SHARED_DIR", "EXCEL_PUBLIC_BASE_URL"} :
         \E e \in EnvStates :
            /\ e[n] # env[n]
            /\ env' = [env EXCEPT ![n] = e[n]]
    /\ UNCHANGED <<pc, call, proc, spawned, ret, used, argv, disk, inv>>

\* A direct call of build_download_url_for_path(path).
UrlCall ==
    /\ pc = "idle"
    /\ \E path \in Paths :
         /\ call' = [layer |-> "url", path |-> path]
         /\ ret' = build_download_url_for_path(env, path)
    /\ used' = ConfigRead(env)
    /\ pc' = "done"
    /\ UNCHANGED <<env, proc, spawned, argv, disk, inv>>

\* A direct call of a wrapper of wrapper.py starts.
WrapCall ==
    /\ pc = "idle"
    /\ \E op \in WrapperOps : call' = [layer |-> "wrapper", op |-> op]
    /\ pc' = "called"
    /\ UNCHANGED <<env, proc, spawned, ret, used, argv, disk, inv>>

\* The wrapper runs the external process and translates its outcome.
WrapRun ==
    /\ pc = "called"
    /\ call.layer = "wrapper"
    /\ \E ev \in ProcEvents(Stdouts) :
         LET x == WrapperExec(call.op, ev) IN
            /\ proc' = x.proc
            /\ spawned' = x.spawned
            /\ ret' = x.ret
    /\ pc' = "done"
    /\ UNCHANGED <<env, call, used, argv, disk, inv>>

\* A tool is invoked by a client.
ToolCall ==
    /\ pc = "idle"
    /\ \E tool \in Tools, path \in ToolPaths :
         call' = [layer |-> "tool", op |-> tool, path |-> path]
    /\ pc' = "called"
    /\ UNCHANGED <<env, proc, spawned, ret, used, argv, disk, inv>>

\* The handler of the tool runs to its end.
ToolRun ==
    /\ pc = "called"
    /\ call.layer = "tool"
    /\ \E ev \in ProcEvents(ToolStdouts) :
         LET x == Tool(call.op, env, call.path, ev) IN
            /\ proc' = x.proc
            /\ spawned' = x.spawned
            /\ ret' = x.ret
    /\ pc' = "done"
    /\ UNCHANGED <<env, call, used, argv, disk, inv>>

\* The caller has its answer; the next call may start.
Finish ==
    /\ pc = "done"
    /\ pc' = "idle"
    /\ call' = NoCall
    /\ proc' = NoProc
    /\ spawned' = 0
    /\ ret' = NoRet
    /\ argv' = NoArgv
    /\ UNCHANGED <<env, used, disk, inv>>

\* The server: tools invoked one after the other.
Next == SetEnv \/ ToolCall \/ ToolRun \/ Finish
Spec == Init /\ [][Next]_vars

\* build_download_url_for_path called directly.
NextUrl == SetEnv \/ UrlCall \/ Finish
SpecUrl == Init /\ [][NextUrl]_vars

\* The wrappers called directly, as a library.
InitWrap == Init /\ env = DefaultEnv
NextWrap == WrapCall \/ WrapRun \/ Finish
SpecWrap == InitWrap /\ [][NextWrap]_vars

(***************************************************************************)
(* Requests with all their parameters.                                     *)
(***************************************************************************)
Sheet == <<"Sheet1">>
A1 == <<"A1">>
B2 == <<"B2">>

\* An optional text parameter: left out (None), empty, or a label.
Optional(label) == {PyNone, PyStr(<<>>), PyStr(<<label>>)}

\* Cells of a matrix: null, a number, a string with a non-ASCII letter
\* and a quote in it.
Cells == {JsonNull, JsonNum(<<"1">>), JsonStr(<<"U+00E9", Quote>>)}

\* Matrices the write requests carry.
ReqData ==
    { JsonList(<<>>),
      JsonList(<< JsonList(<<JsonNull>>) >>),
      JsonList(<< JsonList(<<JsonNum(<<"1">>), JsonStr(<<"U+00E9", Quote>>)>>),
                  JsonList(<<JsonNull, JsonNum(<<"1">>)>>) >>) }

\* Lists of column names: none, one, two, one name with a comma in it,
\* one empty name.
NameLists ==
    { <<>>, << <<"a">> >>, << <<"a">>, <<"b">> >>, << <<"a", ",", "b">> >>, << <<>> >> }

\* Target paths: a workbook in the shared directory, one outside it.
ReqPaths == {DEFAULT_SHARED_DIR \o << <<"book.xlsx">> >>, EtcDir \o << <<"book.xlsx">> >>}

\* The requests of a tool: its parameters by the names of the handler.
Requests(tool) ==
    CASE tool \in {"tool_create_excel", "tool_create_sheet", "tool_delete_worksheet"} ->
            [path : ReqPaths, sheet_name : {Sheet}]
      [] tool = "tool_read_excel" ->
            [path : ReqPaths, sheet_name : {Sheet}, range_str : {<<"A1:B2">>}]
      [] tool = "tool_write_excel" ->
            [path : ReqPaths, sheet_name : {Sheet}, data : ReqData]
      [] tool = "tool_write_range" ->
            [path : ReqPaths, sheet_name : {Sheet}, start_cell : {B2}, data : ReqData]
      [] tool = "tool_append_rows" ->
            [path : ReqPaths, sheet_name : {Sheet}, rows : ReqData,
             anchor_column : {<<"A">>}]
      [] tool = "tool_rename_worksheet" ->
            [path : ReqPaths, old_name : {Sheet}, new_name : {<<"Data">>}]
      [] tool = "tool_copy_worksheet" ->
            [path : ReqPaths, source_sheet : {Sheet}, target_sheet : {<<"Data">>}]
      [] tool = "tool_apply_formula" ->
            [path : ReqPaths, sheet_name : {Sheet}, cell : {A1}, formula : {<<"=SUM(B1:B2)">>}]
      [] tool = "tool_validate_formula_syntax" ->
            [path : ReqPaths, sheet_name : {Sheet}, formula : {<<"=SUM(B1:B2)">>}]
      [] tool = "tool_format_range" ->
            [path : ReqPaths, sheet_name : {Sheet}, start_cell : {A1}, end_cell : {B2},
             bold : BOOLEAN, italic : BOOLEAN, font_size : {0, 12},
             font_color : {<<>>, <<"#FF0000">>}, bg_color : {<<>>}]
      [] tool \in {"tool_merge_cells", "tool_unmerge_cells"} ->
            [path : ReqPaths, sheet_name : {Sheet}, start_cell : {A1}, end_cell : {B2}]
      [] tool = "tool_copy_range" ->
            [path : ReqPaths, sheet_name : {Sheet}, source_start : {A1},
             source_end : {B2}, target_start : {<<"D1">>}, target_sheet : Optional("Data")]
      [] tool = "tool_delete_range" ->
            [path : ReqPaths, sheet_name : {Sheet}, start_cell : {A1}, end_cell : {B2},
             shift_direction : {<<"up">>, <<"left">>, <<"down">>, <<>>}]
      [] tool = "tool_validate_excel_range" ->
            [path : ReqPaths, sheet_name : {Sheet}, start_cell : {A1},
             end_cell : Optional("B2")]
      [] tool = "tool_create_chart" ->
            [path : ReqPaths, sheet_name : {Sheet}, data_range : {<<"A1:B2">>},
             chart_type : {<<"line">>}, target_cell : {<<"D1">>},
             title : Optional("T"), x_axis : Optional("X"), y_axis : Optional("Y")]
      [] tool = "tool_create_pivot_table" ->
            [path : ReqPaths, sheet_name : {Sheet}, data_range : {<<"A1:B2">>},
             rows : NameLists, values : {<< <<"Sales">> >>},
             columns : {PyNone} \cup {PyList(l) : l \in NameLists},
             agg_func : {<<"sum">>}]

\* What the external process prints for a request: nothing, OK, or a row
\* index.
ReqStdouts == ToolStdouts \cup { <<"5">>, <<"1", "5">> }

\* The public origin is configured, the shared directory is the default.
ConfiguredEnv == [EXCEL_SHARED_DIR |-> EnvUnset, EXCEL_PUBLIC_BASE_URL |-> EnvSet(ExCom)]

\* A tool is invoked by a client, with all its parameters.
ReqCall ==
    /\ pc = "idle"
    /\ \E tool \in Tools : \E a \in Requests(tool) :
         call' = [layer |-> "request", op |-> tool, path |-> a.path, args |-> a]
    /\ pc' = "called"
    /\ UNCHANGED <<env, proc, spawned, ret, used, argv, disk, inv>>

\* The handler runs to its end: the wrapper builds the command line and
\* runs it, the handler builds the response.
ReqRun ==
    /\ pc = "called"
    /\ call.layer = "request"
    /\ argv' = ToolCmd(call.op, call.args)
    /\ \E ev \in ProcEvents(ReqStdouts) :
         LET x == Tool(call.op, env, call.path, ev) IN
            /\ proc' = x.proc
            /\ spawned' = x.spawned
            /\ ret' = x.ret
    /\ pc' = "done"
    /\ UNCHANGED <<env, call, used, disk, inv>>

\* The server with the parameters of the requests.
InitArgs == Init /\ env = ConfiguredEnv
NextArgs == ReqCall \/ ReqRun \/ Finish
SpecArgs == InitArgs /\ [][NextArgs]_vars

(***************************************************************************)
(* A stub of the external tool that keeps its workbooks in disk.  Its      *)
(* CreateExcelTool does not overwrite: it exits non-zero when the target   *)
(* exists and creates it, exiting 0, when it does not.                     *)
(***************************************************************************)
Completed(rc, out, err) ==
    [kind |-> "completed", returncode |-> rc, stdout |-> out, stderr |-> err]

\* The ways the stub can refuse: an exit code other than 0, with or
\* without a text on stderr.
Refusals == {Completed(rc, <<>>, err) : rc \in 1..MaxExit, err \in Stderrs}

\* The runs CreateExcelTool can make with the arguments args: the process
\* outcome and the disk it leaves.
StubCreateExcelTool(d, args) ==
    IF args[1] \in d.files
    THEN {[ev |-> r, disk |-> d] : r \in Refusals}
    ELSE {[ev |-> Completed(0, <<>>, <<>>),
           disk |-> [d EXCEPT !.files = @ \cup {args[1]}]]}

\* tool_create_excel is invoked: for the first time in a row of two.
CreateCall ==
    /\ pc = "idle"
    /\ \E a \in Requests("tool_create_excel") :
         call' = [layer |-> "create", op |-> "tool_create_excel", path |-> a.path,
                  args |-> a, nth |-> 1, first |-> NoRet]
    /\ pc' = "called"
    /\ UNCHANGED <<env, proc, spawned, ret, used, argv, disk, inv>>

\* The handler runs to its end, the stub being the external tool.
CreateRun ==
    /\ pc = "called"
    /\ call.layer = "create"
    /\ argv' = ToolCmd(call.op, call.args)
    /\ \E run \in StubCreateExcelTool(disk, ToolArgs(call.op, call.args)) :
         LET x == Tool(call.op, env, call.path, run.ev) IN
            /\ proc' = x.proc
            /\ spawned' = x.spawned
            /\ ret' = x.ret
            /\ disk' = run.disk
    /\ pc' = "done"
    /\ UNCHANGED <<env, call, used, inv>>

\* The client invokes tool_create_excel again, with the same request.
CreateAgain ==
    /\ pc = "done"
    /\ call.layer = "create"
    /\ call.nth = 1
    /\ call' = [call EXCEPT !.nth = 2, !.first = ret]
    /\ pc' = "called"
    /\ proc' = NoProc
    /\ spawned' = 0
    /\ ret' = NoRet
    /\ argv' = NoArgv
    /\ UNCHANGED <<env, used, disk, inv>>

\* WriteExcelTool of the stub keeps the JSON text it is given (the third
\* argument) as the cells of the sheet and exits 0.
StubWriteExcelTool(d, args) ==
    LET kept == {c \in d.cells : ~(c.path = args[1] /\ c.sheet = args[2])}
    IN [ev |-> Completed(0, <<>>, <<>>),
        disk |-> [d EXCEPT !.cells =
                     kept \cup {[path |-> args[1], sheet |-> args[2], json |-> args[3]]}]]

\* ReadExcelTool of the stub prints the text kept for the sheet, and
\* nothing when there is none.
StubReadExcelTool(d, args) ==
    LET found == {c \in d.cells : c.path = args[1] /\ c.sheet = args[2]}
    IN [ev |-> Completed(0, IF found = {} THEN <<>> ELSE (CHOOSE c \in found : TRUE).json,
                         <<>>),
        disk |-> d]

\* The matrices of the round trip: at most MaxRows rows of at most
\* MaxCols cells.
Matrices ==
    {JsonList(rows) : rows \in SeqsUpTo({JsonList(r) : r \in SeqsUpTo(Cells, MaxCols)}, MaxRows)}

\* write_excel is called with a matrix, the stub being the external tool.
RoundWrite ==
    /\ pc = "idle"
    /\ \E path \in ReqPaths, sheet \in {Sheet, <<"Data">>}, data \in Matrices :
         LET args == write_excel_args(PathStr(path), sheet, data)
             run == StubWriteExcelTool(disk, args)
             x == WrapperExec("write_excel", run.ev)
         IN /\ call' = [layer |-> "round", op |-> "write_excel", path |-> path,
                         sheet |-> sheet, data |-> data]
            /\ argv' = Cmd(ClassOf("write_excel"), args)
            /\ proc' = x.proc
            /\ spawned' = x.spawned
            /\ ret' = x.ret
            /\ disk' = run.disk
    /\ pc' = "written"
    /\ UNCHANGED <<env, used, inv>>

\* read_excel is called on the sheet that was written.
RoundRead ==
    /\ pc = "written"
    /\ call.layer = "round"
    /\ LET args == read_excel_args(PathStr(call.path), call.sheet, <<"A1:B2">>)
           run == StubReadExcelTool(disk, args)
           x == WrapperExec("read_excel", run.ev)
       IN /\ call' = [call EXCEPT !.op = "read_excel"]
          /\ argv' = Cmd(ClassOf("read_excel"), args)
          /\ proc' = x.proc
          /\ spawned' = x.spawned
          /\ ret' = x.ret
          /\ disk' = run.disk
    /\ pc' = "done"
    /\ UNCHANGED <<env, used, inv>>

\* The round trip is over; its stub is thrown away.
RoundEnd ==
    /\ pc = "done"
    /\ call.layer = "round"
    /\ pc' = "idle"
    /\ call' = NoCall
    /\ proc' = NoProc
    /\ spawned' = 0
    /\ ret' = NoRet
    /\ argv' = NoArgv
    /\ disk' = NoDisk
    /\ UNCHANGED <<env, used, inv>>

\* The wrappers in front of the stub: write, then read.
InitRound == Init /\ env = DefaultEnv
NextRound == RoundWrite \/ RoundRead \/ RoundEnd
SpecRound == InitRound /\ [][NextRound]_vars

\* The server in front of the stub, asked to create workbooks.
NextCreate == CreateCall \/ CreateRun \/ CreateAgain \/ Finish
SpecCreate == Init /\ [][NextCreate]_vars

(***************************************************************************)
(* Invocations served side by side.  The handlers are coroutines that the  *)
(* transport may run for several requests at once.  An invocation has its  *)
(* parameters and its local variables (the completed process, the return   *)
(* value) for itself; the module has no variable a handler or a wrapper    *)
(* assigns to.  The steps of an invocation are the calls it makes.         *)
(***************************************************************************)
IdleInv == [pc |-> "idle"]

\* The tools and process outcomes of the invocations: a mutating tool and
\* a reading one; a row of JSON, a text that is no JSON, a failure.
ConcTools == {"tool_create_excel", "tool_read_excel"}
ConcEvents ==
    { Completed(0, <<"[", "1", "]">>, <<>>), Completed(0, <<"O", "K">>, <<>>),
      Completed(1, <<>>, <<"boom">>) }

\* The outcome another invocation has got, when there is one.
OutcomeOf_Shared(v, i) ==
    LET others == {j \in DOMAIN v : j # i /\ v[j].pc \in {"exited", "done"}}
    IN IF others = {} THEN v[i].ev ELSE v[CHOOSE j \in others : TRUE].ev

\* result = _run_java(...): the completed process is a local variable of
\* the wrapper, one for each invocation.
OutcomeOf(v, i) == v[i].ev

\* A request arrives and its handler is entered.
ConcStart(i) ==
    /\ inv[i].pc = "idle"
    /\ \E tool \in ConcTools, path \in ReqPaths :
         inv' = [inv EXCEPT ![i] = [pc |-> "called", op |-> tool, path |-> path]]
    /\ UNCHANGED <<env, pc, call, proc, spawned, ret, used, argv, disk>>

\* subprocess.run starts the external process, or fails to and raises.
ConcSpawn(i) ==
    /\ inv[i].pc = "called"
    /\ \/ inv' = [inv EXCEPT ![i].pc = "running"]
       \/ LET ev == [kind |-> "oserror"] IN
          inv' = [inv EXCEPT ![i] =
                     [pc |-> "done", op |-> @.op, path |-> @.path, ev |-> ev,
                      ret |-> Tool(inv[i].op, env, inv[i].path, ev).ret]]
    /\ UNCHANGED <<env, pc, call, proc, spawned, ret, used, argv, disk>>

\* The external process of the invocation exits; subprocess.run returns.
ConcExit(i) ==
    /\ inv[i].pc = "running"
    /\ \E ev \in ConcEvents :
         inv' = [inv EXCEPT ![i] = [pc |-> "exited", op |-> @.op, path |-> @.path, ev |-> ev]]
    /\ UNCHANGED <<env, pc, call, proc, spawned, ret, used, argv, disk>>

\* The wrapper translates the outcome and the handler builds its
\* response, reading the environment for the download URL.
ConcReply(i) ==
    /\ inv[i].pc = "exited"
    /\ inv' = [inv EXCEPT ![i] =
                  [pc |-> "done", op |-> @.op, path |-> @.path, ev |-> @.ev,
                   ret |-> Tool(inv[i].op, env, inv[i].path, OutcomeOf(inv, i)).ret]]
    /\ UNCHANGED <<env, pc, call, proc, spawned, ret, used, argv, disk>>

\* The response is sent.
ConcFinish(i) ==
    /\ inv[i].pc = "done"
    /\ inv' = [inv EXCEPT ![i] = IdleInv]
    /\ UNCHANGED <<env, pc, call, proc, spawned, ret, used, argv, disk>>

\* The server with NumInv requests in progress at once.
InitConc ==
    /\ env \in {DefaultEnv, ConfiguredEnv}
    /\ pc = "idle"
    /\ call = NoCall
    /\ proc = NoProc
    /\ spawned = 0
    /\ ret = NoRet
    /\ used = NoConfig
    /\ argv = NoArgv
    /\ disk = NoDisk
    /\ inv = [i \in 1..NumInv |-> IdleInv]
NextConc ==
    \E i \in 1..NumInv :
        ConcStart(i) \/ ConcSpawn(i) \/ ConcExit(i) \/ ConcReply(i) \/ ConcFinish(i)
SpecConc == InitConc /\ [][NextConc]_vars

(***************************************************************************)
(* Notions the properties are stated in.                                   *)
(***************************************************************************)
UrlDone == pc = "done" /\ call.layer = "url"
WrapDone == pc = "done" /\ call.layer = "wrapper"
ToolDone == pc = "done" /\ call.layer = "tool"

\* The canonical forms of the shared root and of the target path.
SharedRoot == resolve(EnvGet(env, "EXCEL_SHARED_DIR", DEFAULT_SHARED_DIR))
Target == resolve(call.path)

\* p lies in the directory tree of r (r itself counted in) / strictly below r.
Within(p, r) == Len(p) >= Len(r) /\ \A i \in 1..Len(r) : p[i] = r[i]
StrictlyBelow(p, r) == Within(p, r) /\ Len(p) > Len(r)

\* The origin as configured, and whether it is unset, empty or slashes only.
RawOrigin == EnvGet(env, "EXCEL_PUBLIC_BASE_URL", <<>>)
OriginBlank == \A i \in 1..Len(RawOrigin) : RawOrigin[i] = Slash

\* The two failures of the URL builder, told by exception class and message.
IsPathNotContained(r) ==
    /\ r.kind = "raise"
    /\ r.exc = "ValueError"
    /\ r.msg[1] = "File path must be under the shared directory to be downloadable. "
IsURLNotConfigured(r) ==
    r.kind = "raise" /\ r.exc = "RuntimeError" /\ r.msg = NotConfiguredMsg

(***************************************************************************)
(* C1.  Containment guard of build_download_url_for_path.                  *)
(***************************************************************************)
\* C1 as stated: a URL is returned only when the resolved target lies in
\* the tree of the resolved shared root, and every target that resolves
\* outside the root fails with the outside-shared-root error.
C1_AsStated ==
    UrlDone =>
        /\ ret.kind = "return" => Within(Target, SharedRoot)
        /\ ~Within(Target, SharedRoot) => IsPathNotContained(ret)

\* C1 amended: a URL is returned only when the resolved target lies in the
\* tree of the resolved shared root; every target that resolves outside the
\* root makes the call fail and return no URL, with the outside-shared-root
\* error (naming both resolved paths) when the public origin is configured
\* and with the not-configured error when it is not.
C1_ContainmentGuard ==
    UrlDone =>
        /\ ret.kind = "return" => Within(Target, SharedRoot)
        /\ ~Within(Target, SharedRoot) =>
              IF OriginBlank THEN IsURLNotConfigured(ret)
              ELSE /\ IsPathNotContained(ret)
                   /\ Contains(ret.msg, <<"EXCEL_SHARED_DIR=">> \o PathStr(SharedRoot))
                   /\ Contains(ret.msg, <<" but got path=">> \o PathStr(Target))

\* A target that is textually below the shared directory and has no ".."
\* but leaves it through the symbolic link is refused.
C1_Witness ==
    /\ UrlDone
    /\ ~OriginBlank
    /\ IsPrefix(get_shared_directory(env), call.path)
    /\ \A i \in 1..Len(call.path) : call.path[i] # Dotdot
    /\ ~Within(Target, SharedRoot)
    /\ IsPathNotContained(ret)

(***************************************************************************)
(* C2.  URL building is fail-closed.                                       *)
(***************************************************************************)
\* C2: whenever the public origin is unset, empty, or made of slashes only,
\* build_download_url_for_path fails with the not-configured error, for
\* every target path, also one contained in the shared root.
C2_FailClosed == (UrlDone /\ OriginBlank) => IsURLNotConfigured(ret)

\* The origin is "/" and the target lies strictly below the shared root.
C2_Witness ==
    /\ UrlDone
    /\ env.EXCEL_PUBLIC_BASE_URL = EnvSet(<<Slash>>)
    /\ StrictlyBelow(Target, SharedRoot)
    /\ IsURLNotConfigured(ret)

(***************************************************************************)
(* C7.  Shape of the download URL.                                         *)
(***************************************************************************)
\* The origin without its trailing slashes: the longest leading part of
\* the origin that does not end in a slash.
OriginNoTrailingSlash ==
    LET k == CHOOSE k \in 0..Len(RawOrigin) :
                 /\ k = 0 \/ RawOrigin[k] # Slash
                 /\ \A i \in (k + 1)..Len(RawOrigin) : RawOrigin[i] = Slash
    IN SubSeq(RawOrigin, 1, k)

\* Percent-encoding of one character of a path segment.
PercentEncoded(c) ==
    IF c = " " THEN <<"%20">>
    ELSE IF c = "U+00E9" THEN <<"%C3", "%A9">>
    ELSE <<c>>
EncodedSegment(seg) == Flatten([i \in 1..Len(seg) |-> PercentEncoded(seg[i])])

\* The root-relative path of the target, each segment encoded on its own,
\* the segments joined by "/" (the root itself has the relative path ".").
RelSegments == SubSeq(Target, Len(SharedRoot) + 1, Len(Target))
EncodedRelPath ==
    IF RelSegments = <<>> THEN <<".">>
    ELSE Join([i \in 1..Len(RelSegments) |-> EncodedSegment(RelSegments[i])], <<Slash>>)

BookPath == DEFAULT_SHARED_DIR \o << <<"book.xlsx">> >>
BookUrl == <<"https:", Slash, Slash, "ex.com", Slash, "files", Slash, "book.xlsx">>

\* C7: on success the URL is S + "/files/" + E, S the origin without its
\* trailing slashes and E the root-relative path with every segment
\* percent-encoded and "/" between the segments; with the shared root
\* /mnt/data and the origin https://ex.com (with or without trailing
\* slashes) the path /mnt/data/book.xlsx gives https://ex.com/files/book.xlsx.
C7_UrlShape ==
    (UrlDone /\ ret.kind = "return") =>
        /\ ret.value = OriginNoTrailingSlash \o <<Slash, "files", Slash>> \o EncodedRelPath
        /\ ( /\ ~env.EXCEL_SHARED_DIR.set
             /\ RawOrigin \in {ExCom, ExCom \o <<Slash, Slash>>}
             /\ call.path = BookPath ) => ret.value = BookUrl

\* An origin with trailing slashes and a target two segments below the
\* root, one of them with a space in it.
C7_Witness ==
    /\ UrlDone
    /\ ret.kind = "return"
    /\ RawOrigin = ExCom \o <<Slash, Slash>>
    /\ Len(RelSegments) = 2
    /\ Contains(ret.value, <<"%20">>)
    /\ Contains(ret.value, <<"book.xlsx">>)

(***************************************************************************)
(* C8.  The configuration is resolved once.                                *)
(***************************************************************************)
\* C8: a download-URL build uses the origin and the shared root of the
\* build before it, whatever happened to the environment in between.
C8_ResolvedOnce ==
    [][(pc = "idle" /\ pc' = "done" /\ call'.layer = "url" /\ used.read) =>
          /\ used'.origin = used.origin
          /\ (used.rootRead /\ used'.rootRead) => used'.root = used.root]_vars


(***************************************************************************)
(* C3, C4.  Mutating tools whose URL cannot be built.                      *)
(***************************************************************************)
\* No URL can be built for the target of the call in progress.
UrlUnbuildable == OriginBlank \/ ~Within(Target, SharedRoot)
IsUrlFailure(r) == IsPathNotContained(r) \/ IsURLNotConfigured(r)
ExitedZero == proc.kind = "return" /\ proc.value.returncode = 0

\* C3 as stated: a mutating tool reports the PathNotContained or
\* URLNotConfigured failure without an external process having been
\* spawned for the request.
C3_AsStated ==
    (ToolDone /\ call.op \in MutatingTools /\ IsUrlFailure(ret)) => spawned = 0

\* C3 amended: when the target path is outside the shared root or the
\* public origin is not configured, a mutating tool never answers with a
\* success, and it reports the PathNotContained or URLNotConfigured
\* failure only after the one external process of the request has been
\* spawned and has exited 0; building the URL spawns no process.
C3_UrlFailureAfterProcess ==
    (ToolDone /\ call.op \in MutatingTools) =>
        /\ UrlUnbuildable => ret.kind = "raise"
        /\ IsUrlFailure(ret) => (UrlUnbuildable /\ spawned = 1 /\ ExitedZero)

\* tool_create_excel on a path outside the shared root, origin configured.
C3_Witness ==
    /\ ToolDone
    /\ call.op = "tool_create_excel"
    /\ call.path = EtcDir \o << <<"book.xlsx">> >>
    /\ ~OriginBlank
    /\ IsPathNotContained(ret)
    /\ spawned = 1

\* C4: when the external tool exited 0 and the only thing that fails is
\* the building of the URL, the response of a mutating tool still reports
\* the mutation (its message and path), so that it is of another kind
\* than the failure of the external tool.
C4_MutationStillReported ==
    (ToolDone /\ call.op \in MutatingTools /\ ExitedZero /\ UrlUnbuildable
        /\ (ret.kind = "raise" => IsUrlFailure(ret)))
    => (ret.kind = "return" /\ "fields" \in DOMAIN ret.value)

C6_AlwaysAnOutcome ==
    WrapDone =>
        /\ proc.kind = "return"
        /\ spawned = 0 => (proc.value.returncode # 0 /\ proc.value.stderr # <<>>)

\* The literal token OK occurs in s.
HasOK(s) == \E i \in 1..(Len(s) - 1) : s[i] = "O" /\ s[i + 1] = "K"

\* C9: validate_formula_syntax and validate_excel_range, on exit code 0,
\* return the boolean "stdout contains OK": stdout "OK" gives true, empty
\* stdout (or any stdout without OK) gives false, a value, not a failure.
C9_SentinelOk ==
    (WrapDone /\ call.op \in {"validate_formula_syntax", "validate_excel_range"}
        /\ ExitedZero) =>
        /\ ret.kind = "return"
        /\ ret.value = PyBool(HasOK(proc.value.stdout))
        /\ proc.value.stdout = <<"O", "K">> => ret.value.b
        /\ proc.value.stdout = <<>> => ~ret.value.b

\* validate_excel_range, exit code 0, empty stdout: the value false.
C9_Witness ==
    /\ WrapDone
    /\ call.op = "validate_excel_range"
    /\ ExitedZero
    /\ proc.value.stdout = <<>>
    /\ ret = Returned(PyBool(FALSE))

\* s without the whitespace around it: the part of s between its first
\* and its last atom that is not whitespace.
IsBlank(s) == \A i \in 1..Len(s) : s[i] \in Whitespace
Trimmed(s) ==
    IF IsBlank(s) THEN <<>>
    ELSE LET a == CHOOSE a \in 1..Len(s) :
                     s[a] \notin Whitespace /\ \A i \in 1..(a - 1) : s[i] \in Whitespace
             b == CHOOSE b \in 1..Len(s) :
                     s[b] \notin Whitespace /\ \A i \in (b + 1)..Len(s) : s[i] \in Whitespace
         IN SubSeq(s, a, b)

\* C10: read_excel, on exit code 0, gives the JSON decoding of stdout
\* with the whitespace around it dropped, and the empty list for a stdout
\* that is empty or whitespace only.
C10_JsonMatrix ==
    (WrapDone /\ call.op = "read_excel" /\ ExitedZero) =>
        IF IsBlank(proc.value.stdout) THEN ret = Returned(JsonList(<<>>))
        ELSE ret = json_loads(Trimmed(proc.value.stdout))

\* read_excel, exit code 0, a stdout of whitespace only: the empty list.
C10_Witness ==
    /\ WrapDone
    /\ call.op = "read_excel"
    /\ ExitedZero
    /\ proc.value.stdout # <<>>
    /\ IsBlank(proc.value.stdout)
    /\ ret = Returned(JsonList(<<>>))

(***************************************************************************)
(* C11.  Output of read_excel that is not JSON.                            *)
(***************************************************************************)
\* Text of n atoms, all of them c.
Repeat(c, n) == [i \in 1..n |-> c]

RECURSIVE JsonTexts(_)
\* The JSON texts of at most n atoms that the atoms of the standard
\* output can spell, by the grammar of JSON: a number is a run of digits,
\* an array is "[" and "]" around whitespace or around one value with
\* whitespace on either side (there is no "," among the atoms).
JsonTexts(n) ==
    IF n <= 0 THEN {}
    ELSE LET numbers == {Repeat("1", k) : k \in 1..n}
             empties == {<<"[">> \o Repeat(" ", k) \o <<"]">> : k \in 0..(n - 2)}
             singles == {<<"[">> \o Repeat(" ", a) \o v \o Repeat(" ", b) \o <<"]">> :
                            v \in JsonTexts(n - 2), a \in 0..(n - 3), b \in 0..(n - 3)}
         IN numbers \cup empties \cup {t \in singles : Len(t) <= n}

IsJsonText(s) == s \in JsonTexts(Len(s))

\* C11: when the process of read_excel exits 0 and its stdout is not blank
\* and not a JSON text, read_excel ends in a failure, never in a value,
\* and the failure is of another kind (JSONDecodeError) than the failure
\* the wrapper produces for a non-zero exit (RuntimeError).
C11_ParseFailureDistinct ==
    (WrapDone /\ call.op = "read_excel" /\ ExitedZero
        /\ ~IsBlank(proc.value.stdout) /\ ~IsJsonText(Trimmed(proc.value.stdout))) =>
        /\ ret.kind = "raise"
        /\ ret.exc = "JSONDecodeError"
        /\ ret.exc # FailureOf(proc.value).exc

\* read_excel, exit code 0, an array that is not closed on stdout.
C11_Witness ==
    /\ WrapDone
    /\ call.op = "read_excel"
    /\ ExitedZero
    /\ proc.value.stdout = <<"[", "1", " ">>
    /\ ret.kind = "raise"
    /\ ret.exc = "JSONDecodeError"

(***************************************************************************)
(* C12, C13, C17, C20.  The argument vector of a request.                  *)
(***************************************************************************)
ReqDone == pc = "done" /\ call.layer = "request"

\* The argument vector the external tool gets: the command line after
\* java, -cp, the classpath and the class.
ProcArgs == SubSeq(argv, 5, Len(argv))

\* The values of the optional parameters that were supplied, in order.
IsSupplied(v) == v # PyNone
SuppliedOf(opts) ==
    LET present == SelectSeq(opts, IsSupplied)
    IN [i \in 1..Len(present) |-> present[i].s]

\* The optional parameters of the request in progress, for the three
\* operations whose optional parameters come last.
TrailingOptionals ==
    CASE call.op = "tool_copy_range" -> <<call.args.target_sheet>>
      [] call.op = "tool_validate_excel_range" -> <<call.args.end_cell>>
      [] call.op = "tool_create_chart" ->
            <<call.args.title, call.args.x_axis, call.args.y_axis>>

\* The number of required parameters of these operations.
RequiredCount ==
    CASE call.op = "tool_copy_range" -> 5
      [] call.op = "tool_validate_excel_range" -> 3
      [] call.op = "tool_create_chart" -> 5

\* C12 as stated: for copy_range, validate_excel_range, create_chart and
\* create_pivot_table the argument vector has one entry for each required
\* parameter and one for each optional parameter that was supplied, and
\* none for an optional parameter that was left out.
C12_AsStated ==
    ReqDone =>
        /\ call.op \in {"tool_copy_range", "tool_validate_excel_range", "tool_create_chart"}
              => Len(ProcArgs) = RequiredCount + Len(SuppliedOf(TrailingOptionals))
        /\ call.op = "tool_create_pivot_table"
              => Len(ProcArgs) = 6 + (IF IsSupplied(call.args.columns) THEN 1 ELSE 0)

\* C12 amended: for the operations whose optional parameters come last
\* (copy_range target sheet, validate_excel_range end cell, create_chart
\* title, x-axis, y-axis) the argument vector is the required parameters
\* followed by the supplied optional values, an optional parameter that
\* was left out has no entry and a supplied empty string has one;
\* create_pivot_table, whose columns are followed by agg_func, always
\* passes seven entries, the sixth being the empty string when columns is
\* left out.
C12_AbsentOptionalOmitted ==
    ReqDone =>
        /\ call.op \in {"tool_copy_range", "tool_validate_excel_range", "tool_create_chart"}
              => /\ Len(ProcArgs) = RequiredCount + Len(SuppliedOf(TrailingOptionals))
                 /\ SubSeq(ProcArgs, RequiredCount + 1, Len(ProcArgs))
                       = SuppliedOf(TrailingOptionals)
        /\ call.op = "tool_create_pivot_table"
              => /\ Len(ProcArgs) = 7
                 /\ ~IsSupplied(call.args.columns) => ProcArgs[6] = <<>>
                 /\ ProcArgs[7] = call.args.agg_func

\* copy_range without a target sheet: five entries, none of them empty.
C12_Witness ==
    /\ ReqDone
    /\ call.op = "tool_copy_range"
    /\ ~IsSupplied(call.args.target_sheet)
    /\ spawned = 1
    /\ Len(ProcArgs) = 5
    /\ \A i \in 1..Len(ProcArgs) : ProcArgs[i] # <<>>

\* A list of column names as a JSON value.
NamesJson(names) == JsonList([i \in 1..Len(names) |-> JsonStr(names[i])])

\* The entry at position k of the argument vector is a JSON text that
\* decodes to the value v.
DecodesTo(k, v) == k <= Len(ProcArgs) /\ json_loads(ProcArgs[k]) = Returned(v)

\* C13: every structured parameter is one entry of the argument vector,
\* a JSON text that decodes to the value of the parameter: the matrix of
\* write_excel, write_range and append_rows, and the lists rows, values
\* and (when supplied) columns of create_pivot_table.
C13_StructuredAsJson ==
    ReqDone =>
        /\ call.op = "tool_write_excel"
              => (Len(ProcArgs) = 3 /\ DecodesTo(3, call.args.data))
        /\ call.op = "tool_write_range"
              => (Len(ProcArgs) = 4 /\ DecodesTo(4, call.args.data))
        /\ call.op = "tool_append_rows"
              => (Len(ProcArgs) = 4 /\ DecodesTo(3, call.args.rows))
        /\ call.op = "tool_create_pivot_table"
              => /\ DecodesTo(4, NamesJson(call.args.rows))
                 /\ DecodesTo(5, NamesJson(call.args.values))
                 /\ IsSupplied(call.args.columns)
                       => DecodesTo(6, NamesJson(call.args.columns.items))

(***************************************************************************)
(* C14.  Create invoked twice on the same path.                            *)
(***************************************************************************)
\* The failure of the external tool: the RuntimeError that carries the
\* stderr of the process or, stderr being empty, its exit code.
IsExternalToolFailure(r) ==
    /\ r.kind = "raise"
    /\ r.exc = "RuntimeError"
    /\ proc.kind = "return"
    /\ proc.value.returncode # 0
    /\ \/ r.msg = proc.value.stderr /\ proc.value.stderr # <<>>
       \/ r.msg[Len(r.msg)] = ToString(proc.value.returncode)

SecondCreateDone == pc = "done" /\ call.layer = "create" /\ call.nth = 2

\* C14: with an external tool that does not overwrite, the second of two
\* tool_create_excel calls on the same path ends in the failure of the
\* external tool, after one process, whether the first call returned its
\* URL or failed to build it; the two calls never both succeed.
C14_SecondCreateFails ==
    SecondCreateDone =>
        /\ IsExternalToolFailure(ret)
        /\ spawned = 1
        /\ ~(call.first.kind = "return" /\ ret.kind = "return")

\* The first call created the workbook and failed to build its URL (the
\* path is outside the shared root); the second call fails in the tool.
C14_Witness ==
    /\ SecondCreateDone
    /\ IsPathNotContained(call.first)
    /\ PathStr(call.path) \in disk.files
    /\ ret = Raised("RuntimeError", <<"boom">>)

(***************************************************************************)
(* C15.  Round trip of a matrix through write_excel and read_excel.        *)
(***************************************************************************)
RoundDone == pc = "done" /\ call.layer = "round"

\* C15: with a stub that keeps the JSON argument of the write and prints
\* it back on the read, read_excel after write_excel of a matrix of
\* nulls, numbers and strings returns a matrix equal to the one written.
C15_RoundTrip == RoundDone => ret = Returned(call.data)

\* Two rows, the first with the string (a non-ASCII letter and a quote),
\* the second with a null.
C15_Witness ==
    /\ RoundDone
    /\ call.data = JsonList(<< JsonList(<<JsonStr(<<"U+00E9", Quote>>)>>),
                                JsonList(<<JsonNull>>) >>)
    /\ proc.value.stdout = <<"[", "[", Quote, "U+00E9", Backslash, Quote, Quote, "]",
                              ",", " ", "[", NullAtom, "]", "]">>
    /\ ret = Returned(call.data)

(***************************************************************************)
(* C16.  The row index of append_rows.                                     *)
(***************************************************************************)
RECURSIVE DecimalText(_)
\* The decimal digits of a natural number, one atom a digit.
DecimalText(n) ==
    IF n < 10 THEN <<ToString(n)>>
    ELSE Append(DecimalText(n \div 10), ToString(n % 10))

\* The row indices the external tool can report.
RowIndices == 0..20

\* C16: when tool_append_rows succeeds, the start_row of its response is
\* the 0-based row index the external tool printed, as it is: 5 stays 5.
C16_StartRowUnchanged ==
    (ReqDone /\ call.op = "tool_append_rows" /\ ret.kind = "return") =>
        /\ \A n \in RowIndices :
              proc.value.stdout = DecimalText(n) => ret.value.fields.start_row = n
        /\ \E n \in RowIndices : proc.value.stdout = DecimalText(n)

\* The tool reports 5 for the rows [["\u00e9\"", 1], ...]; start_row is 5.
C16_Witness ==
    /\ ReqDone
    /\ call.op = "tool_append_rows"
    /\ Len(call.args.rows.items) = 2
    /\ ret.kind = "return"
    /\ proc.value.stdout = <<"5">>
    /\ ret.value.fields.start_row = 5

(***************************************************************************)
(* C17.  The shift direction of delete_range.                              *)
(***************************************************************************)
ShiftDirections == { <<"up">>, <<"left">> }

\* C17: a delete_range request whose shift direction is neither up nor
\* left is rejected without an external process having been spawned, and
\* the external process is only ever run with the shift direction up or
\* left.
C17_ShiftDirectionValidated ==
    (ReqDone /\ call.op = "tool_delete_range") =>
        /\ call.args.shift_direction \notin ShiftDirections
              => (spawned = 0 /\ ret.kind = "raise")
        /\ spawned > 0 => ProcArgs[5] \in ShiftDirections

(***************************************************************************)
(* C20.  The positional slots of create_chart.                             *)
(***************************************************************************)
\* The optional value v, when supplied, is the entry at position k.
InSlot(v, k) == IsSupplied(v) => (Len(ProcArgs) >= k /\ ProcArgs[k] = v.s)

\* C20: in the argument vector of create_chart a supplied title is the
\* 6th entry, a supplied x-axis label the 7th and a supplied y-axis label
\* the 8th, whichever of the three are supplied.
C20_OwnSlot ==
    (ReqDone /\ call.op = "tool_create_chart") =>
        /\ InSlot(call.args.title, 6)
        /\ InSlot(call.args.x_axis, 7)
        /\ InSlot(call.args.y_axis, 8)

(***************************************************************************)
(* C18.  One process for an invocation, no retry.                          *)
(***************************************************************************)
\* The process ran and its output could not be translated.
IsParseFailure(r) ==
    r.kind = "raise" /\ ExitedZero /\ ~IsUrlFailure(r)

\* C18: an invocation of a tool spawns at most one external process; when
\* the process exits non-zero or its output cannot be parsed, the failure
\* is what the caller gets, with that one process and no second one.
C18_OneProcessNoRetry ==
    ToolDone =>
        /\ spawned <= 1
        /\ (proc.kind = "return" /\ proc.value.returncode # 0)
              => (ret.kind = "raise" /\ spawned = 1)
        /\ IsParseFailure(ret) => spawned = 1

\* tool_read_excel whose process printed OK, which is no JSON: the parse
\* failure after one process.
C18_Witness ==
    /\ ToolDone
    /\ call.op = "tool_read_excel"
    /\ ExitedZero
    /\ proc.value.stdout = <<"O", "K">>
    /\ ret.kind = "raise"
    /\ ret.exc = "JSONDecodeError"
    /\ spawned = 1

(***************************************************************************)
(* C19.  Invocations served side by side are independent.                  *)
(***************************************************************************)
\* What the handler gives for a request, a process outcome and an
\* environment when it is the only invocation there is.
AloneResult(op, path, ev, e) == Tool(op, e, path, ev).ret

EventOf(p) ==
    IF p.kind = "return"
    THEN [kind |-> "completed", returncode |-> p.value.returncode,
          stdout |-> p.value.stdout, stderr |-> p.value.stderr]
    ELSE [kind |-> "oserror"]

ReadOnlyDone == ToolDone /\ call.op \in ReadOnlyTools

\* C21: the result of tool_read_excel, tool_validate_formula_syntax,
\* tool_validate_excel_range and tool_create_pivot_table has no download
\* URL in it, is never a failure of the URL builder, and is, for the same
\* process outcome, the same under every environment: with the origin
\* set or not, with the path under the shared root or not.
C21_ReadOnlyNoUrl ==
    ReadOnlyDone =>
        /\ ret.kind = "return" => "download_url" \notin DOMAIN ret.value
        /\ ~IsUrlFailure(ret)
        /\ \A e \in EnvStates : Tool(call.op, e, call.path, EventOf(proc)).ret = ret

\* tool_read_excel returns the matrix its process printed although the
\* origin is not configured and the path is outside the shared root.
C21_Witness ==
    /\ ReadOnlyDone
    /\ call.op = "tool_read_excel"
    /\ ret.kind = "return"
    /\ OriginBlank
    /\ ~Within(Target, SharedRoot)
    /\ \E e \in EnvStates :
          build_download_url_for_path(e, call.path).kind = "return"

====
